---- MODULE Spec2Model ----
(***************************************************************************)
(* A model of pySTL: Signal Temporal Logic formulas built from leaf        *)
(* robustness functions and the combinators of class STLFormula            *)
(* (src/signal_temporal_logic.py; src/pySTL/signal_temporal_logic.py is    *)
(* the same class without Predicate and until), and of the way             *)
(* src/example.py builds and evaluates them.                               *)
(*                                                                         *)
(* Formula objects live in a heap `nodes`: a constructor appends one       *)
(* object and a child is held by reference (its index), as the Python      *)
(* closures hold `self` and `second_formula`.  A robustness call returns   *)
(* either a number or the exception it raises.                             *)
(***************************************************************************)
EXTENDS Integers, Sequences, FiniteSets

VARIABLES nodes, s, out, thr

vars == <<nodes, s, out, thr>>

(***************************************************************************)
(* Bounds of the model.                                                    *)
(***************************************************************************)
MaxNodes == 3
MaxT == 2
MaxVal == 1
MaxOff == 1
MaxThreads == 2
MaxCoord == 9
Horizon == 5
SwitchStep == 3

(***************************************************************************)
(* Results of a call: a number, or a raised exception.                     *)
(***************************************************************************)
Ok(x) == [ok |-> TRUE, v |-> x, err |-> "-"]

Raise(e) == [ok |-> FALSE, v |-> 0, err |-> e]

\* the record of the last robustness call: the object, the base time, the result
NoCall == [f |-> 0, t |-> 0, res |-> Raise("no call")]

\* a thread's robustness call: the object called, the base time, the result
\* once returned, the signal passed, the evaluations still to make and the
\* values computed so far
Frame(f, t, res, arg, todo, vals) ==
    [f |-> f, t |-> t, res |-> res, arg |-> arg, todo |-> todo, vals |-> vals]

Idle == Frame(0, 0, Raise("no call"), <<>>, <<>>, <<>>)

Threads == 1..MaxThreads

(***************************************************************************)
(* Formula objects: what the closure of an STLFormula captures.            *)
(***************************************************************************)
Node(kind, self, second, t1, t2, d, c) ==
    [kind |-> kind, self |-> self, second |-> second,
     t1 |-> t1, t2 |-> t2, d |-> d, c |-> c]

(***************************************************************************)
(* Signals: a (T, n) numpy array is a sequence of T samples, each a        *)
(* sequence of n numbers.                                                  *)
(***************************************************************************)
Vals == 0..MaxVal

Samples(n) == [1..n -> Vals]

Signals(n) == UNION {[1..T -> Samples(n)] : T \in 1..MaxT}

\* numpy's s[t, d]: a row index in -T..T-1 is accepted, a negative one counts
\* from the end of the array; any other index raises IndexError.
NpIndex(sig, t, d) ==
    LET T == Len(sig) IN
    IF t >= 0 /\ t < T THEN Ok(sig[t + 1][d + 1])
    ELSE IF t < 0 /\ t >= -T THEN Ok(sig[T + t + 1][d + 1])
    ELSE Raise("IndexError")

(***************************************************************************)
(* Python's built-ins as the code uses them.                               *)
(***************************************************************************)
Min2(a, b) == IF b < a THEN b ELSE a

Max2(a, b) == IF b > a THEN b ELSE a

\* range(a, b + 1) as a sequence
Range(a, b) == [j \in 1..(b - a + 1) |-> a + j - 1]

\* The first exception raised while a list of results is built, in order.
FirstRaise(rs) ==
    rs[CHOOSE j \in DOMAIN rs : ~rs[j].ok /\ \A k \in 1..(j - 1) : rs[k].ok]

RECURSIVE FoldMax(_)
FoldMax(rs) ==
    IF Len(rs) = 1 THEN rs[1].v
    ELSE Max2(FoldMax(SubSeq(rs, 1, Len(rs) - 1)), rs[Len(rs)].v)

RECURSIVE FoldMin(_)
FoldMin(rs) ==
    IF Len(rs) = 1 THEN rs[1].v
    ELSE Min2(FoldMin(SubSeq(rs, 1, Len(rs) - 1)), rs[Len(rs)].v)

\* max([...]) of a list comprehension: an exception raised by an element
\* propagates; max of an empty list raises ValueError.
PyMax(rs) ==
    IF \E j \in DOMAIN rs : ~rs[j].ok THEN FirstRaise(rs)
    ELSE IF rs = <<>> THEN Raise("ValueError")
    ELSE Ok(FoldMax(rs))

PyMin(rs) ==
    IF \E j \in DOMAIN rs : ~rs[j].ok THEN FirstRaise(rs)
    ELSE IF rs = <<>> THEN Raise("ValueError")
    ELSE Ok(FoldMin(rs))

PyNeg(r) == IF r.ok THEN Ok(0 - r.v) ELSE r

(***************************************************************************)
(* The robustness functions.                                               *)
(***************************************************************************)
\* The objects that are instances of STLFormula (a Predicate has no
\* combinator methods: it can only be a second_formula).
IsFormula(h, i) == i \in DOMAIN h /\ h[i].kind # "Predicate"

RECURSIVE Robustness(_, _, _, _)

\* Predicate.robustness: the body reads the names mu and c, which are
\* neither locals nor globals of the module (the attributes are self.mu and
\* self.c): evaluating `mu` raises NameError before the signal is indexed.
Predicate_robustness(h, n, sig, t) == Raise("NameError")

\* STLFormula(lambda s, t : s[t,d] - c)
above_robustness(h, n, sig, t) ==
    LET x == NpIndex(sig, t, n.d) IN
    IF x.ok THEN Ok(x.v - n.c) ELSE x

\* STLFormula(lambda s, t : -s[t,d] + c)
below_robustness(h, n, sig, t) ==
    LET x == NpIndex(sig, t, n.d) IN
    IF x.ok THEN Ok((0 - x.v) + n.c) ELSE x

negation_robustness(h, n, sig, t) == PyNeg(Robustness(h, n.self, sig, t))

\* as conjunction_robustness, with the max of disjunction
conjunction_robustness_max(h, n, sig, t) ==
    LET a == Robustness(h, n.self, sig, t) IN
    IF ~a.ok THEN a
    ELSE LET b == Robustness(h, n.second, sig, t) IN
         IF ~b.ok THEN b ELSE Ok(Max2(a.v, b.v))

conjunction_robustness(h, n, sig, t) ==
    LET a == Robustness(h, n.self, sig, t) IN
    IF ~a.ok THEN a
    ELSE LET b == Robustness(h, n.second, sig, t) IN
         IF ~b.ok THEN b ELSE Ok(Min2(a.v, b.v))

disjunction_robustness(h, n, sig, t) ==
    LET a == Robustness(h, n.self, sig, t) IN
    IF ~a.ok THEN a
    ELSE LET b == Robustness(h, n.second, sig, t) IN
         IF ~b.ok THEN b ELSE Ok(Max2(a.v, b.v))

\* as eventually_robustness, the window read as absolute indices
eventually_robustness_absolute(h, n, sig, t) ==
    LET ks == Range(n.t1, n.t2) IN
    PyMax([j \in DOMAIN ks |-> Robustness(h, n.self, sig, ks[j])])

eventually_robustness(h, n, sig, t) ==
    LET ks == Range(t + n.t1, t + n.t2) IN
    PyMax([j \in DOMAIN ks |-> Robustness(h, n.self, sig, ks[j])])

\* as always_robustness, the last step of the window left out
always_robustness_short(h, n, sig, t) ==
    LET ks == Range(t + n.t1, t + n.t2 - 1) IN
    PyMin([j \in DOMAIN ks |-> Robustness(h, n.self, sig, ks[j])])

\* as always_robustness, with the max of eventually
always_robustness_max(h, n, sig, t) ==
    LET ks == Range(t + n.t1, t + n.t2) IN
    PyMax([j \in DOMAIN ks |-> Robustness(h, n.self, sig, ks[j])])

always_robustness(h, n, sig, t) ==
    LET ks == Range(t + n.t1, t + n.t2) IN
    PyMin([j \in DOMAIN ks |-> Robustness(h, n.self, sig, ks[j])])

\* as until_element, the inner interval started at tp's window, not at t
until_element_from_t1(h, n, sig, t, tp) ==
    LET a == Robustness(h, n.self, sig, tp) IN
    IF ~a.ok THEN a
    ELSE LET tpps == Range(t + n.t1, tp)
             b == PyMin([j \in DOMAIN tpps |->
                           Robustness(h, n.second, sig, tpps[j])])
         IN IF ~b.ok THEN b ELSE PyMin(<<a, b>>)

\* One element of until's outer list:
\*   min([ self.robustness(s,tp),
\*         min([second_formula.robustness(s,tpp) for tpp in range(t,tp+1)]) ])
until_element(h, n, sig, t, tp) ==
    LET a == Robustness(h, n.self, sig, tp) IN
    IF ~a.ok THEN a
    ELSE LET tpps == Range(t, tp)
             b == PyMin([j \in DOMAIN tpps |->
                           Robustness(h, n.second, sig, tpps[j])])
         IN IF ~b.ok THEN b ELSE PyMin(<<a, b>>)

until_robustness(h, n, sig, t) ==
    LET tps == Range(t + n.t1, t + n.t2) IN
    PyMax([j \in DOMAIN tps |-> until_element(h, n, sig, t, tps[j])])

\* formula.robustness(s, t) for the object at index i of heap h
Robustness(h, i, sig, t) ==
    LET n == h[i] IN
    CASE n.kind = "Predicate" -> Predicate_robustness(h, n, sig, t)
      [] n.kind = "above" -> above_robustness(h, n, sig, t)
      [] n.kind = "below" -> below_robustness(h, n, sig, t)
      [] n.kind = "negation" -> negation_robustness(h, n, sig, t)
      [] n.kind = "conjunction" -> conjunction_robustness(h, n, sig, t)
      [] n.kind = "disjunction" -> disjunction_robustness(h, n, sig, t)
      [] n.kind = "eventually" -> eventually_robustness(h, n, sig, t)
      [] n.kind = "always" -> always_robustness(h, n, sig, t)
      [] n.kind = "until" -> until_robustness(h, n, sig, t)

(***************************************************************************)
(* Constructors.  Each returns a new object that holds its children and    *)
(* its window; none inspects the window, none changes an existing object.  *)
(***************************************************************************)
\* above_xmin = STLFormula(lambda s, t : s[t,0] - xmin)
new_above(d, c) == Node("above", 0, 0, 0, 0, d, c)

\* below_xmax = STLFormula(lambda s, t : -s[t,0] + xmax)
new_below(d, c) == Node("below", 0, 0, 0, 0, d, c)

\* Predicate(mu, c), mu the d-th coordinate of the sample
new_Predicate(d, c) == Node("Predicate", 0, 0, 0, 0, d, c)

new_negation(self) == Node("negation", self, 0, 0, 0, 0, 0)

new_conjunction(self, second_formula) ==
    Node("conjunction", self, second_formula, 0, 0, 0, 0)

new_disjunction(self, second_formula) ==
    Node("disjunction", self, second_formula, 0, 0, 0, 0)

new_eventually(self, t1, t2) == Node("eventually", self, 0, t1, t2, 0, 0)

new_always(self, t1, t2) == Node("always", self, 0, t1, t2, 0, 0)

new_until(self, second_formula, t1, t2) ==
    Node("until", self, second_formula, t1, t2, 0, 0)

(***************************************************************************)
(* Operations.                                                             *)
(***************************************************************************)
Thresholds == {1}

Offsets == 0..MaxOff

\* the offsets and base times a caller can pass when nothing stops it
AnyOffsets == (0 - 1)..MaxOff

AnyTimes == (0 - 1)..MaxT

\* The caller keeps the object a constructor returned.  (An object equal to
\* one already built is not built again: it would evaluate the same.)
New(n) ==
    /\ \A i \in DOMAIN nodes : nodes[i] # n
    /\ nodes' = Append(nodes, n)
    /\ UNCHANGED <<s, out, thr>>

MkAbove(d, c) == New(new_above(d, c))

MkBelow(d, c) == New(new_below(d, c))

MkPredicate(d, c) == New(new_Predicate(d, c))

negation(self) ==
    /\ IsFormula(nodes, self)
    /\ New(new_negation(self))

conjunction(self, second_formula) ==
    /\ IsFormula(nodes, self)
    /\ second_formula \in DOMAIN nodes
    /\ New(new_conjunction(self, second_formula))

disjunction(self, second_formula) ==
    /\ IsFormula(nodes, self)
    /\ second_formula \in DOMAIN nodes
    /\ New(new_disjunction(self, second_formula))

eventually(self, t1, t2) ==
    /\ IsFormula(nodes, self)
    /\ New(new_eventually(self, t1, t2))

always(self, t1, t2) ==
    /\ IsFormula(nodes, self)
    /\ New(new_always(self, t1, t2))

until(self, second_formula, t1, t2) ==
    /\ IsFormula(nodes, self)
    /\ second_formula \in DOMAIN nodes
    /\ New(new_until(self, second_formula, t1, t2))

\* in_rectangle_formula(xmin, xmax, ymin, ymax) of example.py: four leaves
\* and three conjunctions; the last object built is the one returned.
in_rectangle_formula(xmin, xmax, ymin, ymax) ==
    LET b == Len(nodes) IN
    /\ nodes' = nodes \o << new_above(0, xmin), new_below(0, xmax),
                            new_above(1, ymin), new_below(1, ymax),
                            new_conjunction(b + 1, b + 2),
                            new_conjunction(b + 3, b + 4),
                            new_conjunction(b + 5, b + 6) >>
    /\ UNCHANGED <<s, out, thr>>

\* formula.robustness(s, t), as the caller of example.py invokes it
Call(f, t) ==
    /\ f \in DOMAIN nodes
    /\ out' = [f |-> f, t |-> t, res |-> Robustness(nodes, f, s, t)]
    /\ UNCHANGED <<nodes, s, thr>>

(***************************************************************************)
(* Spec: one-dimensional signals; a leaf, then negation and the unary      *)
(* temporal operators chained on the object built last, as example.py      *)
(* chains hit_obstacle.negation().always(0,20); windows and base times     *)
(* inside their documented ranges.  The formula is built, then evaluated.  *)
(***************************************************************************)
Init ==
    /\ nodes = <<>>
    /\ s \in Signals(1)
    /\ out = NoCall
    /\ thr = [th \in Threads |-> Idle]

\* nothing evaluated yet, and room for one more object
Building == out = NoCall /\ Len(nodes) < MaxNodes

\* the object built last
Last == Len(nodes)

Next ==
    \/ \E c \in Thresholds : nodes = <<>> /\ MkAbove(0, c)
    \/ \E c \in Thresholds : nodes = <<>> /\ MkBelow(0, c)
    \/ Building /\ negation(Last)
    \/ \E t1, t2 \in Offsets : Building /\ t1 <= t2 /\ eventually(Last, t1, t2)
    \/ \E t1, t2 \in Offsets : Building /\ t1 <= t2 /\ always(Last, t1, t2)
    \/ \E t \in 0..(MaxT - 1) : t < Len(s) /\ Call(Last, t)

Spec == Init /\ [][Next]_vars

(***************************************************************************)
(* What the claims speak of.                                               *)
(***************************************************************************)
\* the object the last call was made on
Called == nodes[out.f]

HasCall(kind) == out.f \in DOMAIN nodes /\ nodes[out.f].kind = kind

\* the window is as documented and, from base time out.t, inside the signal
WindowInside(n) ==
    /\ 0 <= n.t1 /\ n.t1 <= n.t2
    /\ out.t >= 0 /\ out.t + n.t2 <= Len(s) - 1

\* phi.robustness(s, k) for every k of a closed interval
Over(phi, a, b) == {Robustness(nodes, phi, s, k) : k \in a..b}

AllOk(rs) == \A r \in rs : r.ok

\* the greatest and the least number of a set of returned numbers
Greatest(rs) == CHOOSE v \in {r.v : r \in rs} : \A r \in rs : r.v <= v

Least(rs) == CHOOSE v \in {r.v : r \in rs} : \A r \in rs : v <= r.v

\* a call whose sub-evaluations rs all return a number returns m; a call with
\* a failing sub-evaluation fails
Returns(res, rs, m) == IF AllOk(rs) THEN res = Ok(m) ELSE ~res.ok

\* the heap after two more constructor calls
Ext2(n1, n2) == Append(Append(nodes, n1), n2)

\* C2: eventually(phi, t1, t2).robustness(s, t) is the maximum of
\* phi.robustness(s, k) over k in [t+t1, t+t2], the window being relative to
\* the evaluation time t; the same holds for an eventually evaluated by an
\* enclosing temporal operator at each time k of its window.
C2_EventuallyIsWindowMax ==
    /\ (HasCall("eventually") /\ WindowInside(Called)) =>
          LET rs == Over(Called.self, out.t + Called.t1, out.t + Called.t2)
          IN Returns(out.res, rs, Greatest(rs))
    /\ (/\ HasCall("always")
        /\ WindowInside(Called)
        /\ nodes[Called.self].kind = "eventually"
        /\ 0 <= nodes[Called.self].t1
        /\ nodes[Called.self].t1 <= nodes[Called.self].t2
        /\ out.t + Called.t2 + nodes[Called.self].t2 <= Len(s) - 1) =>
          LET e == nodes[Called.self]
              inner == {[ok |-> AllOk(Over(e.self, k + e.t1, k + e.t2)),
                         v |-> IF AllOk(Over(e.self, k + e.t1, k + e.t2))
                               THEN Greatest(Over(e.self, k + e.t1, k + e.t2))
                               ELSE 0] :
                        k \in (out.t + Called.t1)..(out.t + Called.t2)}
          IN Returns(out.res, inner, Least(inner))

\* C2 witness: an always evaluated an eventually at a time other than 0, the
\* call returned a number, and the sample at time 0 would have given another.
C2_Witness ==
    /\ HasCall("always")
    /\ WindowInside(Called)
    /\ nodes[Called.self].kind = "eventually"
    /\ out.t + Called.t1 >= 1
    /\ out.res.ok
    /\ out.res # Robustness(nodes, Called.self, s, 0)

\* C9: negate(always(phi, t1, t2)) and eventually(negate(phi), t1, t2) have
\* the same robustness wherever the window lies inside the signal.
C9_AlwaysEventuallyDuality ==
    (/\ HasCall("negation")
     /\ nodes[Called.self].kind = "always"
     /\ WindowInside(nodes[Called.self])) =>
        LET a == nodes[Called.self]
            h == Ext2(new_negation(a.self),
                      new_eventually(Len(nodes) + 1, a.t1, a.t2))
        IN out.res = Robustness(h, Len(h), s, out.t)

\* C9 witness: the negation of an always over a two-step window returned a
\* number.
C9_Witness ==
    /\ HasCall("negation")
    /\ nodes[Called.self].kind = "always"
    /\ WindowInside(nodes[Called.self])
    /\ nodes[Called.self].t1 < nodes[Called.self].t2
    /\ out.res.ok

\* the heap after one more constructor call
Ext1(n1) == Append(nodes, n1)

\* both calls return a number, and the first is at most the second
Le(a, b) == a.ok /\ b.ok /\ a.v <= b.v

\* where the narrower window gives a number, the wider one gives a number too,
\* and the first of the two numbers is at most the second
WhereNarrowReturns(narrow, first, second) == narrow.ok => Le(first, second)

\* the windows [t1, t2] inside the window of object n
SubWindows(n) ==
    {w \in Offsets \X Offsets : n.t1 <= w[1] /\ w[1] <= w[2] /\ w[2] <= n.t2}

\* C10 as stated: for every formula phi and windows 0 <= u1 <= t1 <= t2 <= u2
\* with t + u2 <= T-1, always over the wider window is at most always over
\* the narrower one, and eventually over the wider window is at least
\* eventually over the narrower one.
C10_AsStated ==
    /\ (HasCall("always") /\ WindowInside(Called)) =>
          \A w \in SubWindows(Called) :
             LET h == Ext1(new_always(Called.self, w[1], w[2]))
                 narrow == Robustness(h, Len(h), s, out.t)
             IN WhereNarrowReturns(narrow, out.res, narrow)
    /\ (HasCall("eventually") /\ WindowInside(Called)) =>
          \A w \in SubWindows(Called) :
             LET h == Ext1(new_eventually(Called.self, w[1], w[2]))
                 narrow == Robustness(h, Len(h), s, out.t)
             IN WhereNarrowReturns(narrow, narrow, out.res)

\* phi.robustness(s, k) returns a number at every step k of the called
\* object's window
PhiDefinedOnWindow ==
    AllOk(Over(Called.self, out.t + Called.t1, out.t + Called.t2))

\* C10 amended: window monotonicity holds for every formula phi whose
\* robustness phi.robustness(s, k) returns a number at every step k of the
\* wider window [t+u1, t+u2].
C10_WindowMonotonicity ==
    /\ (HasCall("always") /\ WindowInside(Called) /\ PhiDefinedOnWindow) =>
          \A w \in SubWindows(Called) :
             LET h == Ext1(new_always(Called.self, w[1], w[2]))
             IN Le(out.res, Robustness(h, Len(h), s, out.t))
    /\ (HasCall("eventually") /\ WindowInside(Called) /\ PhiDefinedOnWindow) =>
          \A w \in SubWindows(Called) :
             LET h == Ext1(new_eventually(Called.self, w[1], w[2]))
             IN Le(Robustness(h, Len(h), s, out.t), out.res)

\* C10 witness: an always over a two-step window returned a number that is
\* strictly below the robustness over one of its sub-windows.
C10_Witness ==
    /\ HasCall("always")
    /\ WindowInside(Called)
    /\ PhiDefinedOnWindow
    /\ \E w \in SubWindows(Called) :
          LET h == Ext1(new_always(Called.self, w[1], w[2]))
          IN /\ Robustness(h, Len(h), s, out.t).ok
             /\ out.res.v < Robustness(h, Len(h), s, out.t).v

(***************************************************************************)
(* SpecWin: a leaf, a Predicate or a temporal operator over them, with any  *)
(* window and any base time a caller can pass.                             *)
(***************************************************************************)
\* one temporal operator over one leaf or Predicate
Small == Len(nodes) < MaxNodes - 1

NextWin ==
    \/ \E c \in Thresholds : Small /\ MkAbove(0, c)
    \/ \E c \in Thresholds : Small /\ MkPredicate(0, c)
    \/ \E i \in 1..MaxNodes, t1, t2 \in AnyOffsets :
          Small /\ eventually(i, t1, t2)
    \/ \E i \in 1..MaxNodes, t1, t2 \in AnyOffsets :
          Small /\ always(i, t1, t2)
    \/ \E i, j \in 1..MaxNodes, t1, t2 \in AnyOffsets :
          Small /\ until(i, j, t1, t2)
    \/ \E i \in 1..MaxNodes, t \in AnyTimes : Call(i, t)

SpecWin == Init /\ [][NextWin]_vars

Temporal == {"always", "eventually", "until"}

\* C5: a temporal formula evaluated at a base time t for which the closed
\* interval [t+t1, t+t2] is not inside [0, T-1] fails with an
\* index-out-of-range error: it returns no number, and no index wraps around.
C5_WindowOutsideRaisesIndexError ==
    (/\ out.f \in DOMAIN nodes
     /\ Called.kind \in Temporal
     /\ 0 <= Called.t1 /\ Called.t1 <= Called.t2
     /\ (out.t + Called.t1 < 0 \/ out.t + Called.t2 > Len(s) - 1)) =>
        out.res = Raise("IndexError")

\* C6: a window-taking constructor given t1 > t2, t1 < 0 or t2 < 0 returns no
\* formula object.
C6_InvalidWindowRejected ==
    \A i \in DOMAIN nodes :
       nodes[i].kind \in Temporal =>
          (0 <= nodes[i].t1 /\ 0 <= nodes[i].t2 /\ nodes[i].t1 <= nodes[i].t2)

(***************************************************************************)
(* SpecUntil: two leaves, then until over them and over untils built       *)
(* before, with windows and base times inside their documented ranges;     *)
(* each until uses the object built last, and the formula is built before  *)
(* it is evaluated.                                                        *)
(***************************************************************************)
NextUntil ==
    \/ \E c \in Thresholds : Len(nodes) < 2 /\ MkAbove(0, c)
    \/ \E c \in Thresholds : Len(nodes) < 2 /\ MkBelow(0, c)
    \/ \E i, j \in 1..MaxNodes, t1, t2 \in Offsets :
          /\ Building /\ t1 <= t2
          /\ Len(nodes) >= 2 /\ (i = Last \/ j = Last)
          /\ until(i, j, t1, t2)
    \/ \E t \in 0..(MaxT - 1) : t < Len(s) /\ Call(Last, t)

SpecUntil == Init /\ [][NextUntil]_vars

\* C1: Predicate(mu, c).robustness(s, t) returns mu(s[t]) - c for every t
\* with 0 <= t < T.
C1_PredicateRobustness ==
    (HasCall("Predicate") /\ 0 <= out.t /\ out.t < Len(s)) =>
        out.res = Ok(s[out.t + 1][Called.d + 1] - Called.c)

\* the number phi.robustness(s, k) returned
Num(phi, k) == Robustness(nodes, phi, s, k).v

\* C3: phi1.until(phi2, t1, t2).robustness(s, t) is the maximum over t' in
\* [t+t1, t+t2] of min(phi1.robustness(s, t'), minimum over t'' in [t, t']
\* of phi2.robustness(s, t'')): the inner interval starts at t and ends at t'.
C3_UntilFormula ==
    (HasCall("until") /\ WindowInside(Called)) =>
        LET u == Called
            subs == Over(u.self, out.t + u.t1, out.t + u.t2)
                       \cup Over(u.second, out.t, out.t + u.t2)
            elems == {Ok(Min2(Num(u.self, tp),
                              Least(Over(u.second, out.t, tp)))) :
                        tp \in (out.t + u.t1)..(out.t + u.t2)}
        IN IF AllOk(subs) THEN out.res = Ok(Greatest(elems)) ELSE ~out.res.ok

\* C3 witness: an until whose window starts after the base time returned a
\* number that phi2's value before the window decides.
C3_Witness ==
    /\ HasCall("until")
    /\ WindowInside(Called)
    /\ Called.t1 >= 1
    /\ out.res.ok
    /\ out.res.v = Num(Called.second, out.t)
    /\ \A k \in (out.t + Called.t1)..(out.t + Called.t2) :
          out.res.v < Num(Called.second, k) /\ out.res.v < Num(Called.self, k)

(***************************************************************************)
(* SpecRect: the rectangle formulas of example.py over two-dimensional     *)
(* signals; the sample looked at is the first or the second of the signal. *)
(***************************************************************************)
\* hit_obstacle = in_rectangle_formula(3,5,4,6)
hit_obstacle == <<3, 5, 4, 6>>

\* at_goal = in_rectangle_formula(7,8,8,9)
at_goal == <<7, 8, 8, 9>>

Points == [1..2 -> 0..MaxCoord]

Origin == [i \in 1..2 |-> 0]

RectSignals == {<<p>> : p \in Points} \cup {<<Origin, p>> : p \in Points}

\* the rectangle formula of r has been built
Built(r) ==
    \E i \in DOMAIN nodes : nodes[i] = new_above(0, r[1])

InitRect ==
    /\ nodes = <<>>
    /\ s \in RectSignals
    /\ out = NoCall
    /\ thr = [th \in Threads |-> Idle]

NextRect ==
    \/ /\ out = NoCall /\ ~Built(hit_obstacle)
       /\ in_rectangle_formula(hit_obstacle[1], hit_obstacle[2],
                               hit_obstacle[3], hit_obstacle[4])
    \/ /\ out = NoCall /\ ~Built(at_goal)
       /\ in_rectangle_formula(at_goal[1], at_goal[2], at_goal[3], at_goal[4])
    \/ \E f \in 1..14, t \in 0..1 : t < Len(s) /\ Call(f, t)

SpecRect == InitRect /\ [][NextRect]_vars

\* object f is what in_rectangle_formula returned: a conjunction of two
\* conjunctions over the four boundary leaves
IsRectangle(f) ==
    /\ f \in DOMAIN nodes /\ f > 6
    /\ nodes[f] = new_conjunction(f - 2, f - 1)
    /\ nodes[f - 2] = new_conjunction(f - 6, f - 5)
    /\ nodes[f - 1] = new_conjunction(f - 4, f - 3)
    /\ nodes[f - 6].kind = "above" /\ nodes[f - 6].d = 0
    /\ nodes[f - 5].kind = "below" /\ nodes[f - 5].d = 0
    /\ nodes[f - 4].kind = "above" /\ nodes[f - 4].d = 1
    /\ nodes[f - 3].kind = "below" /\ nodes[f - 3].d = 1

\* sample p lies in the closed rectangle whose formula is object f
Inside(p, f) ==
    /\ nodes[f - 6].c <= p[1] /\ p[1] <= nodes[f - 5].c
    /\ nodes[f - 4].c <= p[2] /\ p[2] <= nodes[f - 3].c

\* the four boundary leaves of rectangle formula f, in each order
Orders(f) ==
    {q \in [1..4 -> (f - 6)..(f - 3)] : \A i, j \in 1..4 : q[i] = q[j] => i = j}

\* the heaps that hold another nesting of binary conjunctions of the leaves
\* q[1..4], the full conjunction built last
Nestings(q) ==
    LET b == Len(nodes) IN
    { nodes \o << new_conjunction(q[1], q[2]), new_conjunction(b + 1, q[3]),
                  new_conjunction(b + 2, q[4]) >>,
      nodes \o << new_conjunction(q[3], q[4]), new_conjunction(q[2], b + 1),
                  new_conjunction(q[1], b + 2) >>,
      nodes \o << new_conjunction(q[1], q[2]), new_conjunction(q[3], q[4]),
                  new_conjunction(b + 1, b + 2) >> }

\* C8: the rectangle formula's robustness at a sample is the minimum of the
\* four boundary robustness values, in whatever order the binary
\* conjunctions are nested; it is >= 0 exactly for the samples in the closed
\* rectangle.
C8_RectangleIsMinOfBoundaries ==
    (IsRectangle(out.f) /\ 0 <= out.t /\ out.t < Len(s)) =>
        LET rs == {Robustness(nodes, l, s, out.t) : l \in (out.f - 6)..(out.f - 3)}
        IN /\ AllOk(rs)
           /\ out.res = Ok(Least(rs))
           /\ \A q \in Orders(out.f) : \A h \in Nestings(q) :
                 Robustness(h, Len(h), s, out.t) = out.res
           /\ (out.res.v >= 0) <=> Inside(s[out.t + 1], out.f)

\* C8 witness: the rectangle formula was evaluated at a sample inside the
\* rectangle and not on its boundary.
C8_Witness ==
    /\ IsRectangle(out.f) /\ 0 <= out.t /\ out.t < Len(s)
    /\ Inside(s[out.t + 1], out.f)
    /\ out.res.ok /\ out.res.v > 0

(***************************************************************************)
(* SpecReach: region A is the obstacle rectangle, region B the goal        *)
(* rectangle; the signal stays at one point for the steps before           *)
(* SwitchStep and at another from SwitchStep to Horizon.                   *)
(***************************************************************************)
ReachSignals ==
    {[k \in 1..(Horizon + 1) |-> IF k <= SwitchStep THEN p ELSE q] :
        p \in Points, q \in Points}

InitReach ==
    /\ nodes = <<>>
    /\ s \in ReachSignals
    /\ out = NoCall
    /\ thr = [th \in Threads |-> Idle]

NextReach ==
    \/ /\ nodes = <<>>
       /\ in_rectangle_formula(hit_obstacle[1], hit_obstacle[2],
                               hit_obstacle[3], hit_obstacle[4])
    \/ /\ Len(nodes) = 7
       /\ in_rectangle_formula(at_goal[1], at_goal[2], at_goal[3], at_goal[4])
    \/ Len(nodes) = 14 /\ until(7, 14, 0, Horizon)
    \/ \E t \in 0..1 : Len(nodes) = 15 /\ Call(Last, t)

SpecReach == InitReach /\ [][NextReach]_vars

\* C4: a signal inside A at the steps before SwitchStep and inside B from
\* SwitchStep on gives until(phi1, phi2, 0, Horizon) a robustness >= 0 at
\* base time 0.
C4_StaysInAThenB ==
    (/\ HasCall("until") /\ out.t = 0
     /\ IsRectangle(Called.self) /\ IsRectangle(Called.second)
     /\ \A k \in 1..SwitchStep : Inside(s[k], Called.self)
     /\ \A k \in (SwitchStep + 1)..Len(s) : Inside(s[k], Called.second)) =>
        (out.res.ok /\ out.res.v >= 0)

(***************************************************************************)
(* SpecEval: threads call robustness on one formula tree.  A call is       *)
(* evaluated one step at a time (one leaf read, one descent into the       *)
(* children, or one min/max/negation), and the steps of the threads        *)
(* interleave.                                                             *)
(***************************************************************************)
Leaves == {"above", "below", "Predicate"}

\* the calls that the robustness function of object i makes at time tt, in
\* the order it makes them
Operands(i, tt) ==
    LET n == nodes[i] IN
    CASE n.kind = "negation" -> << <<"eval", n.self, tt>> >>
      [] n.kind \in {"conjunction", "disjunction"} ->
            << <<"eval", n.self, tt>>, <<"eval", n.second, tt>> >>
      [] n.kind \in {"eventually", "always"} ->
            [j \in 1..(n.t2 - n.t1 + 1) |-> <<"eval", n.self, tt + n.t1 + j - 1>>]
      [] OTHER -> <<>>

\* what the robustness function of object n returns from its calls' values xs
Combine(n, xs) ==
    CASE n.kind = "negation" -> Ok(0 - xs[1])
      [] n.kind = "conjunction" -> Ok(Min2(xs[1], xs[2]))
      [] n.kind = "disjunction" -> Ok(Max2(xs[1], xs[2]))
      [] n.kind = "eventually" -> PyMax([j \in DOMAIN xs |-> Ok(xs[j])])
      [] n.kind = "always" -> PyMin([j \in DOMAIN xs |-> Ok(xs[j])])
      [] OTHER -> Raise("TypeError")

\* as LeafValue, reading the signal last handed to the tree, not the caller's
LeafValue_shared(th, i, tt) ==
    Robustness(nodes, i, s, tt)

\* the leaf lambda of object i, called by thread th at time tt
LeafValue(th, i, tt) ==
    Robustness(nodes, i, thr[th].arg, tt)

\* thread th calls robustness(sig, t) on object f
Begin(th, f, sig, t) ==
    /\ thr[th].todo = <<>>
    /\ f \in DOMAIN nodes
    /\ thr' = [thr EXCEPT ![th] =
                  Frame(f, t, Raise("running"), sig, << <<"eval", f, t>> >>, <<>>)]
    /\ UNCHANGED <<nodes, s, out>>

\* thread th makes the next step of its call
EvalStep(th) ==
    LET fr == thr[th]
        top == Head(fr.todo)
        rest == Tail(fr.todo)
        i == top[2]
        tt == top[3]
        ops == Operands(i, tt)
        k == IF top[1] = "apply" THEN Len(ops) ELSE 0
        keep == SubSeq(fr.vals, 1, Len(fr.vals) - k)
        xs == SubSeq(fr.vals, Len(fr.vals) - k + 1, Len(fr.vals))
        r == IF top[1] = "eval" THEN LeafValue(th, i, tt) ELSE Combine(nodes[i], xs)
    IN  /\ fr.todo # <<>>
        /\ thr' = [thr EXCEPT ![th] =
              IF top[1] = "eval" /\ nodes[i].kind \notin Leaves
              THEN Frame(fr.f, fr.t, fr.res, fr.arg,
                         ops \o << <<"apply", i, tt>> >> \o rest, fr.vals)
              ELSE IF ~r.ok \/ rest = <<>>
              THEN Frame(fr.f, fr.t, r, fr.arg, <<>>, <<>>)
              ELSE Frame(fr.f, fr.t, fr.res, fr.arg, rest, Append(keep, r.v))]
        /\ UNCHANGED <<nodes, s, out>>

\* no call has been started
Quiet == \A th \in Threads : thr[th] = Idle

\* a trajectory that moves a units a step, as the candidate trajectories of
\* example.py do
Trajectory(a) == [k \in 1..MaxT |-> [d \in 1..1 |-> a * (k - 1)]]

\* the trajectories a caller passes
Passed == {Trajectory(a) : a \in 0..1}

InitEval ==
    /\ nodes = <<>>
    /\ s = Trajectory(1)
    /\ out = NoCall
    /\ thr = [th \in Threads |-> Idle]

NextEval ==
    \/ \E c \in Thresholds : nodes = <<>> /\ MkAbove(0, c)
    \/ Quiet /\ Building /\ Last = 1 /\ negation(Last)
    \/ Quiet /\ Building /\ Last = 1 /\ always(Last, 0, 1)
    \/ Quiet /\ Building /\ Last >= 2 /\ conjunction(Last - 1, Last)
    \/ Quiet /\ Building /\ Last >= 2 /\ disjunction(Last, Last - 1)
    \/ \E th \in Threads, sig \in Passed, t \in 0..1 : Begin(th, Last, sig, t)
    \/ \E th \in Threads : EvalStep(th)

SpecEval == InitEval /\ [][NextEval]_vars

\* thread th has returned from a call
Returned(th) == thr[th].f # 0 /\ thr[th].todo = <<>>

\* object i is a child of two objects of the tree under f, or twice of one
Shared(i) ==
    \E j, k \in DOMAIN nodes :
        /\ nodes[j].kind \notin Leaves /\ nodes[k].kind \notin Leaves
        /\ nodes[j].self = i
        /\ \/ j # k /\ i \in {nodes[k].self, nodes[k].second}
           \/ j = k /\ nodes[k].second = i

\* a step of a call leaves the formula objects and the signal as they were,
\* and the arguments of every call in progress
CallsChangeNothing ==
    (\E th \in Threads : thr'[th] # thr[th]) =>
        /\ nodes' = nodes
        /\ s' = s
        /\ \A th \in Threads : thr[th].todo # <<>> =>
              /\ thr'[th].f = thr[th].f
              /\ thr'[th].t = thr[th].t
              /\ thr'[th].arg = thr[th].arg

\* C7: whatever the interleaving of the threads' robustness calls on one
\* formula tree, every call returns what the call returns when evaluated
\* alone on the tree, and no step of a call changes a formula object, a
\* child link, a window or the signal.
C7_CallsArePure ==
    /\ [](\A th \in Threads : Returned(th) =>
            thr[th].res = Robustness(nodes, thr[th].f, thr[th].arg, thr[th].t))
    /\ [][CallsChangeNothing]_vars

\* C7 witness: a thread has returned a number from a call on a tree with a
\* shared sub-formula while another thread is in the middle of a call on
\* the same tree with another signal.
C7_Witness ==
    \E th, ot \in Threads :
        /\ Returned(th) /\ thr[th].res.ok
        /\ \E i \in DOMAIN nodes : Shared(i)
        /\ thr[ot].todo # <<>> /\ thr[ot].vals # <<>>
        /\ thr[ot].arg # thr[th].arg

====
